---- MODULE Spec2Model ----
(***************************************************************************)
(* axum-bcs, src/lib.rs: the Bson<T> extractor / responder.                *)
(*                                                                         *)
(* A header value is a sequence of lexical symbols: a name symbol stands   *)
(* for a run of token characters, "/", "+" and ";" for themselves,         *)
(* ParamSym for one well-formed " charset=utf-8" parameter and NonAscii    *)
(* for a byte outside visible ASCII.  A body is a sequence of bytes.       *)
(* T is instantiated as  struct { foo: u64 }, the u64 kept as its eight    *)
(* little-endian bytes.                                                    *)
(***************************************************************************)
EXTENDS Integers, Sequences, FiniteSets, TLC

VARIABLES req, pc, buf, adapter, rejection, trace, wrapped, resp,
          hdr, verdict

vars == <<req, pc, buf, adapter, rejection, trace, wrapped, resp, hdr, verdict>>

(* ------------------------------ bounds -------------------------------- *)

\* longest header value, in symbols, the validator is run on
MaxHeaderLen == 5
\* values of T carry a low byte in 0..MaxLow
MaxLow == 0
\* the body collector receives the body in frames of at most ChunkLen bytes
ChunkLen == 12

\* two extractions run concurrently
Procs == {1, 2}

None == "none"

\* Option<_>: <<>> is None, <<x>> is Some(x)
Nothing == <<>>
Some(x) == <<x>>
The(o) == o[1]

(* --------------------------- header values ---------------------------- *)

NameSyms == {"application", "text", "octet-stream", "json", "plain", "vnd.custom"}
ParamSym == "charset=utf-8"
NonAscii == "0xFF"
Syms == NameSyms \cup {"/", "+", ";", ParamSym, NonAscii}

\* '+' is a token character of RFC 7230, '/', ';' and '=' are not
IsToken(s) == s \in NameSyms \cup {"+"}

Absent == [present |-> FALSE, value |-> <<>>]
Header(s) == [present |-> TRUE, value |-> s]

\* req.headers().get(CONTENT_TYPE)
HeadersGet(r) == r.header

\* HeaderValue::to_str: Err when a byte is not visible ASCII
ToStr(h) ==
    IF \E i \in 1..Len(h.value) : h.value[i] = NonAscii
    THEN [ok |-> FALSE, str |-> <<>>]
    ELSE [ok |-> TRUE, str |-> h.value]

SubSeqFrom(s, i) == SubSeq(s, i, Len(s))

\* the parameter list after the first ';': name=value (';' name=value)*
RECURSIVE ParamsOk(_)
ParamsOk(s) ==
    IF s = <<>> THEN TRUE
    ELSE /\ s[1] = ParamSym
         /\ \/ Len(s) = 1
            \/ /\ s[2] = ";"
               /\ ParamsOk(SubSeqFrom(s, 3))

\* scan of the top-level type: index of the '/', 0 when the scan fails
RECURSIVE ScanType(_, _)
ScanType(s, i) ==
    IF i > Len(s) THEN 0
    ELSE IF s[i] = "/" THEN (IF i > 1 THEN i ELSE 0)
    ELSE IF IsToken(s[i]) THEN ScanType(s, i + 1)
    ELSE 0

\* scan of the subtype from index i: [ok, plus, semi]; plus is the LAST '+'
\* that is not the first character of the subtype, semi the first ';'
RECURSIVE ScanSub(_, _, _, _)
ScanSub(s, start, i, plus) ==
    IF i > Len(s) THEN [ok |-> TRUE, plus |-> plus, semi |-> 0]
    ELSE IF s[i] = "+" /\ i > start THEN ScanSub(s, start, i + 1, i)
    ELSE IF s[i] = ";" /\ i > start
         THEN [ok |-> ParamsOk(SubSeqFrom(s, i + 1)), plus |-> plus, semi |-> i]
    ELSE IF IsToken(s[i]) THEN ScanSub(s, start, i + 1, plus)
    ELSE [ok |-> FALSE, plus |-> 0, semi |-> 0]

NoMime == [ok |-> FALSE, source |-> <<>>, slash |-> 0, plus |-> 0, semi |-> 0]

\* str.parse::<mime::Mime>()
MimeParse(s) ==
    LET slash == ScanType(s, 1) IN
    IF slash = 0 THEN NoMime
    ELSE LET sub == ScanSub(s, slash + 1, slash + 1, 0) IN
         IF ~sub.ok THEN NoMime
         ELSE [ok |-> TRUE, source |-> s, slash |-> slash,
               plus |-> sub.plus, semi |-> sub.semi]

MimeEnd(m) == IF m.semi > 0 THEN m.semi ELSE Len(m.source) + 1

\* Mime::type_
MimeType(m) == SubSeq(m.source, 1, m.slash - 1)

\* Mime::subtype: up to the '+' when there is one
MimeSubtype(m) ==
    SubSeq(m.source, m.slash + 1,
           (IF m.plus > 0 THEN m.plus ELSE MimeEnd(m)) - 1)

\* Mime::suffix: Option<Name>
MimeSuffix(m) ==
    IF m.plus > 0
    THEN [some |-> TRUE, name |-> SubSeq(m.source, m.plus + 1, MimeEnd(m) - 1)]
    ELSE [some |-> FALSE, name |-> <<>>]

APPLICATION == <<"application">>
OCTET_STREAM == <<"octet-stream">>

\* a validator that forgets the top-level type
bson_content_type_any_type(r) ==
    LET h == HeadersGet(r) IN
    IF ~h.present THEN FALSE
    ELSE LET t == ToStr(h) IN
         IF ~t.ok THEN FALSE
         ELSE LET m == MimeParse(t.str) IN
              IF ~m.ok THEN FALSE
              ELSE \/ MimeSubtype(m) = OCTET_STREAM
                   \/ (MimeSuffix(m).some /\ MimeSuffix(m).name = OCTET_STREAM)

\* fn bson_content_type(req) -> bool
bson_content_type(r) ==
    LET h == HeadersGet(r) IN
    IF ~h.present THEN FALSE
    ELSE LET t == ToStr(h) IN
         IF ~t.ok THEN FALSE
         ELSE LET m == MimeParse(t.str) IN
              IF ~m.ok THEN FALSE
              ELSE /\ MimeType(m) = APPLICATION
                   /\ \/ MimeSubtype(m) = OCTET_STREAM
                      \/ (MimeSuffix(m).some /\ MimeSuffix(m).name = OCTET_STREAM)

(* ------------------------------ the codec ------------------------------ *)

\* values of T = struct { foo: u64 }
Values ==
    { [foo |-> <<lo, 0, 0, 0, 0, 0, 0, hi>>] : lo \in 0..MaxLow, hi \in {0, 127, 128} }

\* little-endian i32
I32LE(n) ==
    <<n % 256, (n \div 256) % 256, (n \div 65536) % 256, (n \div 16777216) % 256>>

\* the element key "foo" as a cstring
FooKey == <<102, 111, 111, 0>>

Ok(v) == [ok |-> TRUE, val |-> Some(v), err |-> None]
Err(e) == [ok |-> FALSE, val |-> Nothing, err |-> e]

\* an encoder that counts the document length without its terminator
to_raw_document_buf_short_len(v) ==
    IF v.foo[8] >= 128
    THEN Err("unsigned integer exceeded range")
    ELSE LET elem == <<18>> \o FooKey \o v.foo
         IN  Ok(I32LE(4 + Len(elem)) \o elem \o <<0>>)

\* bson::to_raw_document_buf(&T): one Int64 element (type 0x12); a u64
\* above i64::MAX does not serialize
to_raw_document_buf(v) ==
    IF v.foo[8] >= 128
    THEN Err("unsigned integer exceeded range")
    ELSE LET elem == <<18>> \o FooKey \o v.foo
         IN  Ok(I32LE(4 + Len(elem) + 1) \o elem \o <<0>>)

\* index of the first 0 byte of s at or after i, 0 when there is none
RECURSIVE FindNul(_, _)
FindNul(s, i) ==
    IF i > Len(s) THEN 0
    ELSE IF s[i] = 0 THEN i
    ELSE FindNul(s, i + 1)

\* bson::from_slice::<T>(&[u8]) on a document of at most one element
from_slice(b) ==
    LET n == Len(b) IN
    IF n < 5 THEN Err("unexpected end of document")
    ELSE IF b[4] >= 128 \/ b[1] + 256 * b[2] + 65536 * b[3] + 16777216 * b[4] # n
         THEN Err("invalid document length")
    ELSE IF b[n] # 0 THEN Err("document not null terminated")
    ELSE LET e == SubSeq(b, 5, n - 1) IN
         IF e = <<>> THEN Err("missing field foo")
         ELSE LET nul == FindNul(e, 2) IN
              IF nul = 0 THEN Err("key not null terminated")
              ELSE LET key == SubSeq(e, 2, nul)
                       payload == SubSeqFrom(e, nul + 1)
                   IN  IF e[1] # 18 THEN Err("invalid element type")
                       ELSE IF Len(payload) # 8 THEN Err("invalid element length")
                       ELSE IF key # FooKey THEN Err("missing field foo")
                       ELSE IF payload[8] >= 128
                            THEN Err("invalid value: expected u64")
                       ELSE Ok([foo |-> payload])

(* ----------------------------- requests -------------------------------- *)

Encodable == { v \in Values : to_raw_document_buf(v).ok }
Sample == The(to_raw_document_buf([foo |-> <<0, 0, 0, 0, 0, 0, 0, 0>>]).val)
Patch(b, i, x) == [b EXCEPT ![i] = x]

ValidBodies == { The(to_raw_document_buf(v).val) : v \in Encodable }
MalformedBodies ==
    { <<>>,                              \* empty
      <<5, 0, 0, 0, 0>>,                 \* the empty document: schema mismatch
      SubSeq(Sample, 1, Len(Sample) - 1),\* truncated
      Patch(Sample, 1, Sample[1] + 1),   \* length prefix off by one
      Patch(Sample, Len(Sample), 1),     \* no terminator
      Patch(Sample, 5, 8),               \* another element type
      Patch(Sample, 8, 112),             \* another key
      Patch(Sample, 17, 128) }           \* negative Int64
Bodies == ValidBodies \cup MalformedBodies

SampleHeaders ==
    { Absent,
      Header(<<"application", "/", "octet-stream">>),
      Header(<<"application", "/", "vnd.custom", "+", "octet-stream">>),
      Header(<<"text", "/", "plain">>),
      Header(<<"application", "/", "json">>) }

\* how the body stream ends: delivered whole, broken by a stream error, or
\* cut by the size limit of the collector
Faults == {None, "UnknownBodyError", "LengthLimitError"}

\* bodies of the streams that break
FaultBodies == {<<>>, Sample, SubSeq(Sample, 1, Len(Sample) - 1)}

Requests ==
    { r \in [header : SampleHeaders, body : Bodies, fault : Faults] :
        r.fault = None \/ r.body \in FaultBodies }
NoRequest == [header |-> Absent, body |-> <<>>, fault |-> None]

(* ----------------------------- rejections ------------------------------ *)

MissingContentType == [kind |-> "MissingContentType", source |-> None]
BytesRead(e) == [kind |-> "BytesRead", source |-> e]
BsonError(e) == [kind |-> "BsonError", source |-> e]

\* #[error(...)] Display of BsonRejection
Display(rej) ==
    CASE rej.kind = "BytesRead" -> "bytes read error: " \o rej.source
      [] rej.kind = "MissingContentType" -> "missing octet-stream content type"
      [] rej.kind = "BsonError" -> "bson parse error: " \o rej.source

Bson(v) == [value |-> v]

(* ----------------------------- responses ------------------------------- *)

BAD_REQUEST == 400
INTERNAL_SERVER_ERROR == 500
TEXT_PLAIN_UTF_8 == <<"text", "/", "plain", ";", ParamSym>>
APPLICATION_OCTET_STREAM == <<"application", "/", "octet-stream">>

\* what IntoResponse of a body alone gives: status 200 OK
\* a body given as text or as bytes
TextBody(t) == [text |-> t, bytes |-> <<>>]
BytesBody(b) == [text |-> "", bytes |-> b]
DefaultResponse(body) == [status |-> 200, content_type |-> <<>>, body |-> body]
WithStatus(r, s) == [r EXCEPT !.status = s]
WithContentType(r, ct) == [r EXCEPT !.content_type = ct]

\* a rejection mapping that reports decode failures as server errors
rejection_into_response_by_kind(rej) ==
    WithStatus(WithContentType(DefaultResponse(TextBody(Display(rej))), TEXT_PLAIN_UTF_8),
               IF rej.kind = "BsonError" THEN INTERNAL_SERVER_ERROR ELSE BAD_REQUEST)

\* impl IntoResponse for BsonRejection
rejection_into_response(rej) ==
    WithStatus(WithContentType(DefaultResponse(TextBody(Display(rej))), TEXT_PLAIN_UTF_8),
               BAD_REQUEST)

\* a responder that labels the error text as binary and leaves the status
bson_into_response_unmarked_error(a) ==
    LET r == to_raw_document_buf(a.value) IN
    IF r.ok
    THEN WithContentType(DefaultResponse(BytesBody(The(r.val))), APPLICATION_OCTET_STREAM)
    ELSE WithContentType(DefaultResponse(TextBody(r.err)), APPLICATION_OCTET_STREAM)

\* impl IntoResponse for Bson<T>
bson_into_response(a) ==
    LET r == to_raw_document_buf(a.value) IN
    IF r.ok
    THEN WithContentType(DefaultResponse(BytesBody(The(r.val))), APPLICATION_OCTET_STREAM)
    ELSE WithStatus(WithContentType(DefaultResponse(TextBody(r.err)), TEXT_PLAIN_UTF_8),
                    INTERNAL_SERVER_ERROR)

(* ------------------------------- state --------------------------------- *)

Init ==
    /\ req = [p \in Procs |-> NoRequest]
    /\ pc = [p \in Procs |-> "idle"]
    /\ buf = [p \in Procs |-> <<>>]
    /\ adapter = [p \in Procs |-> Nothing]
    /\ rejection = [p \in Procs |-> Nothing]
    /\ trace = [p \in Procs |-> <<>>]
    /\ wrapped = [p \in Procs |-> Nothing]
    /\ resp = [p \in Procs |-> Nothing]
    /\ hdr = Absent
    /\ verdict = Nothing

\* the pipeline hands request r to invocation p of from_request
Arrive(p, r) ==
    /\ pc[p] = "idle"
    /\ req' = [req EXCEPT ![p] = r]
    /\ pc' = [pc EXCEPT ![p] = "start"]
    /\ UNCHANGED <<buf, adapter, rejection, trace, wrapped, resp, hdr, verdict>>

\* a shared static buffer
SharedSlot(p) == 1

\* the buffer invocation p collects into: `bytes`, a local of its own future
OwnSlot(p) == p

\* an extraction that starts collecting the body whatever the validator says
FromRequestStartEager(p) ==
    /\ pc[p] = "start"
    /\ trace' = [trace EXCEPT ![p] = Append(@, "validate")]
    /\ pc' = [pc EXCEPT ![p] = "collecting"]
    /\ UNCHANGED <<req, buf, adapter, rejection, wrapped, resp, hdr, verdict>>

\* an extraction that records the rejection and goes on to the body
FromRequestStartFallThrough(p) ==
    /\ pc[p] = "start"
    /\ trace' = [trace EXCEPT ![p] = Append(@, "validate")]
    /\ pc' = [pc EXCEPT ![p] = "collecting"]
    /\ IF bson_content_type(req[p])
       THEN UNCHANGED rejection
       ELSE rejection' = [rejection EXCEPT ![p] = Some(MissingContentType)]
    /\ UNCHANGED <<req, buf, adapter, wrapped, resp, hdr, verdict>>

\* first poll of from_request: the validator, then either the rejection or
\* the suspension on Bytes::from_request
FromRequestStart(p) ==
    /\ pc[p] = "start"
    /\ trace' = [trace EXCEPT ![p] = Append(@, "validate")]
    /\ IF bson_content_type(req[p])
       THEN /\ pc' = [pc EXCEPT ![p] = "collecting"]
            /\ UNCHANGED rejection
       ELSE /\ pc' = [pc EXCEPT ![p] = "finished"]
            /\ rejection' = [rejection EXCEPT ![p] = Some(MissingContentType)]
    /\ UNCHANGED <<req, buf, adapter, wrapped, resp, hdr, verdict>>

Min(a, b) == IF a < b THEN a ELSE b

\* the next frame of body after `got` bytes
NextFrame(body, got) == SubSeq(body, got + 1, Min(Len(body), got + ChunkLen))

\* Bytes::from_request, one frame of the body arriving
CollectFrame(p) ==
    /\ pc[p] = "collecting"
    /\ Len(buf[OwnSlot(p)]) < Len(req[p].body)
    /\ buf' = [buf EXCEPT ![OwnSlot(p)] = @ \o NextFrame(req[p].body, Len(@))]
    /\ trace' = [trace EXCEPT ![p] = Append(@, "read")]
    /\ UNCHANGED <<req, pc, adapter, rejection, wrapped, resp, hdr, verdict>>

\* an extraction that decodes what was buffered when the collector fails
CollectFailDecodePartial(p) ==
    /\ pc[p] = "collecting"
    /\ req[p].fault # None
    /\ LET d == from_slice(buf[OwnSlot(p)]) IN
       /\ trace' = [trace EXCEPT ![p] = Append(@, "decode")]
       /\ IF d.ok
          THEN /\ adapter' = [adapter EXCEPT ![p] = Some(Bson(The(d.val)))]
               /\ UNCHANGED rejection
          ELSE /\ rejection' = [rejection EXCEPT ![p] = Some(BsonError(d.err))]
               /\ UNCHANGED adapter
    /\ pc' = [pc EXCEPT ![p] = "finished"]
    /\ buf' = [buf EXCEPT ![OwnSlot(p)] = <<>>]
    /\ UNCHANGED <<req, wrapped, resp, hdr, verdict>>

\* Bytes::from_request(..).await? returning Err: the `?` converts the
\* BytesRejection with #[from] and returns
CollectFail(p) ==
    /\ pc[p] = "collecting"
    /\ req[p].fault # None
    /\ rejection' = [rejection EXCEPT ![p] = Some(BytesRead(req[p].fault))]
    /\ pc' = [pc EXCEPT ![p] = "finished"]
    /\ buf' = [buf EXCEPT ![OwnSlot(p)] = <<>>]
    /\ UNCHANGED <<req, adapter, trace, wrapped, resp, hdr, verdict>>

\* an extraction that wraps the decode result without looking at it
BodyCollectedUnchecked(p) ==
    /\ pc[p] = "collecting"
    /\ req[p].fault = None
    /\ Len(buf[OwnSlot(p)]) >= Len(req[p].body)
    /\ trace' = [trace EXCEPT ![p] = Append(@, "decode")]
    /\ adapter' = [adapter EXCEPT ![p] = Some(Bson(from_slice(buf[OwnSlot(p)]).val))]
    /\ pc' = [pc EXCEPT ![p] = "finished"]
    /\ buf' = [buf EXCEPT ![OwnSlot(p)] = <<>>]
    /\ UNCHANGED <<req, rejection, wrapped, resp, hdr, verdict>>

\* Bytes::from_request(..).await returning Ok(bytes) at end of stream, then
\* bson::from_slice(&bytes) and the match on its result
BodyCollected(p) ==
    /\ pc[p] = "collecting"
    /\ req[p].fault = None
    /\ Len(buf[OwnSlot(p)]) >= Len(req[p].body)
    /\ LET d == from_slice(buf[OwnSlot(p)]) IN
       /\ trace' = [trace EXCEPT ![p] = Append(@, "decode")]
       /\ IF d.ok
          THEN /\ adapter' = [adapter EXCEPT ![p] = Some(Bson(The(d.val)))]
               /\ UNCHANGED rejection
          ELSE /\ rejection' = [rejection EXCEPT ![p] = Some(BsonError(d.err))]
               /\ UNCHANGED adapter
    /\ pc' = [pc EXCEPT ![p] = "finished"]
    /\ buf' = [buf EXCEPT ![OwnSlot(p)] = <<>>]
    /\ UNCHANGED <<req, wrapped, resp, hdr, verdict>>

\* the future is dropped while suspended on the body: its locals go with it
Cancel(p) ==
    /\ pc[p] = "collecting"
    /\ pc' = [pc EXCEPT ![p] = "cancelled"]
    /\ buf' = [buf EXCEPT ![OwnSlot(p)] = <<>>]
    /\ UNCHANGED <<req, adapter, rejection, trace, wrapped, resp, hdr, verdict>>

\* the pipeline turns the rejection into the response
RespondRejection(p) ==
    /\ pc[p] = "finished"
    /\ rejection[p] # Nothing
    /\ resp' = [resp EXCEPT ![p] = Some(rejection_into_response(The(rejection[p])))]
    /\ pc' = [pc EXCEPT ![p] = "responded"]
    /\ UNCHANGED <<req, buf, adapter, rejection, trace, wrapped, hdr, verdict>>

\* the handler returns a Bson: the extracted one (possibly changed through
\* DerefMut) or one built with From<T>
RespondBson(p, v) ==
    /\ pc[p] = "finished"
    /\ adapter[p] # Nothing
    /\ wrapped' = [wrapped EXCEPT ![p] = Some(Bson(v))]
    /\ resp' = [resp EXCEPT ![p] = Some(bson_into_response(Bson(v)))]
    /\ pc' = [pc EXCEPT ![p] = "responded"]
    /\ UNCHANGED <<req, buf, adapter, rejection, trace, hdr, verdict>>

Next ==
    \E p \in Procs :
        \/ \E r \in Requests : Arrive(p, r)
        \/ FromRequestStart(p)
        \/ CollectFrame(p)
        \/ CollectFail(p)
        \/ BodyCollected(p)
        \/ Cancel(p)
        \/ RespondRejection(p)
        \/ \E v \in Values : RespondBson(p, v)

Spec == Init /\ [][Next]_vars

(* --------------------- the validator on its own ------------------------ *)

\* the header is absent, or any value of up to MaxHeaderLen symbols
HeaderInput(h) ==
    \/ h = Absent
    \/ \E n \in 0..MaxHeaderLen : \E s \in [1..n -> Syms] : h = Header(s)

InitValidator ==
    /\ HeaderInput(hdr)
    /\ verdict = Nothing
    /\ req = [p \in Procs |-> NoRequest]
    /\ pc = [p \in Procs |-> "idle"]
    /\ buf = [p \in Procs |-> <<>>]
    /\ adapter = [p \in Procs |-> Nothing]
    /\ rejection = [p \in Procs |-> Nothing]
    /\ trace = [p \in Procs |-> <<>>]
    /\ wrapped = [p \in Procs |-> Nothing]
    /\ resp = [p \in Procs |-> Nothing]

RunValidator ==
    /\ verdict = Nothing
    /\ verdict' = Some(bson_content_type([header |-> hdr]))
    /\ UNCHANGED <<req, pc, buf, adapter, rejection, trace, wrapped, resp, hdr>>

NextValidator == RunValidator

SpecValidator == InitValidator /\ [][NextValidator]_vars

(* ------------------------------ claims --------------------------------- *)

IsTokenSeq(s) == \A i \in 1..Len(s) : IsToken(s[i])
HasNo(s, x) == \A i \in 1..Len(s) : s[i] # x

\* the text reads  application "/" sub [";" params]  where sub is
\* octet-stream, or splits at its last inner '+' with octet-stream on either
\* side of it being the subtype or the suffix
AcceptableText(s) ==
    /\ Len(s) >= 3
    /\ s[1] = "application"
    /\ s[2] = "/"
    /\ \E k \in 3..Len(s) :
         LET sub == SubSeq(s, 3, k)
             rest == SubSeqFrom(s, k + 1)
         IN  /\ IsTokenSeq(sub)
             /\ \/ rest = <<>>
                \/ (rest[1] = ";" /\ ParamsOk(Tail(rest)))
             /\ \/ sub = <<"octet-stream">>
                \/ \E j \in 2..Len(sub) :
                     /\ sub[j] = "+"
                     /\ HasNo(SubSeqFrom(sub, j + 1), "+")
                     /\ \/ SubSeq(sub, 1, j - 1) = <<"octet-stream">>
                        \/ SubSeqFrom(sub, j + 1) = <<"octet-stream">>

\* C1: bson_content_type returns true exactly when the Content-Type header
\* is present, is text, parses as a media type, has top-level type
\* application and has octet-stream as its subtype or as its suffix.
\* application/octet-stream and application/vnd.custom+octet-stream are
\* accepted; an absent header, text/plain, application/json and
\* text/vnd.custom+octet-stream are not.
C1_ValidatorAcceptsExactly ==
    verdict # Nothing =>
        /\ The(verdict) = (hdr.present /\ AcceptableText(hdr.value))
        /\ The(verdict) =
             /\ hdr.present
             /\ ToStr(hdr).ok
             /\ MimeParse(hdr.value).ok
             /\ MimeType(MimeParse(hdr.value)) = <<"application">>
             /\ \/ MimeSubtype(MimeParse(hdr.value)) = <<"octet-stream">>
                \/ MimeSuffix(MimeParse(hdr.value)) =
                       [some |-> TRUE, name |-> <<"octet-stream">>]
        /\ hdr \in { Header(<<"application", "/", "octet-stream">>),
                     Header(<<"application", "/", "vnd.custom", "+", "octet-stream">>) }
              => The(verdict)
        /\ hdr \in { Absent,
                     Header(<<NonAscii>>),
                     Header(<<"octet-stream">>),
                     Header(<<"text", "/", "plain">>),
                     Header(<<"application", "/", "json">>),
                     Header(<<"text", "/", "vnd.custom", "+", "octet-stream">>) }
              => ~The(verdict)

\* the validator has accepted a suffixed vendor type
C1_Witness ==
    /\ verdict = Some(TRUE)
    /\ hdr = Header(<<"application", "/", "vnd.custom", "+", "octet-stream">>)

Returned(p) == pc[p] \in {"finished", "responded"}

AcceptedHeaders ==
    { Header(<<"application", "/", "octet-stream">>),
      Header(<<"application", "/", "vnd.custom", "+", "octet-stream">>) }
RefusedHeaders ==
    { Absent, Header(<<"text", "/", "plain">>), Header(<<"application", "/", "json">>) }

Has(t, e) == \E i \in 1..Len(t) : t[i] = e

\* C2: in every execution of from_request the validator runs before any
\* body byte is read, and when it returns false no read step and no decode
\* step occurs and nothing of the body is buffered.
C2_ValidatorBeforeBody ==
    \A p \in Procs :
        /\ \A i \in 1..Len(trace[p]) :
             trace[p][i] \in {"read", "decode"} => (i > 1 /\ trace[p][1] = "validate")
        /\ buf[p] # <<>> => (trace[p] # <<>> /\ trace[p][1] = "validate")
        /\ (trace[p] # <<>> /\ ~bson_content_type(req[p])) =>
               /\ trace[p] = <<"validate">>
               /\ buf[p] = <<>>
               /\ Returned(p)

\* a refused request has returned with its non-empty body untouched
C2_Witness ==
    \E p \in Procs :
        /\ pc[p] = "finished"
        /\ req[p].header = Header(<<"text", "/", "plain">>)
        /\ req[p].body # <<>>
        /\ trace[p] = <<"validate">>

\* C3: a request whose Content-Type is missing or refused (text/plain,
\* application/json) fails with MissingContentType whatever its body is
\* and however its read would end; it never yields an adapter, BytesRead
\* or a decode rejection.
C3_RefusedIsMissingContentType ==
    \A p \in Procs :
        req[p].header \in RefusedHeaders =>
            /\ adapter[p] = Nothing
            /\ rejection[p] \in {Nothing, Some(MissingContentType)}
            /\ Returned(p) => rejection[p] = Some(MissingContentType)

\* text/plain with a valid encoding whose read would fail, and a missing
\* header with a malformed body, both rejected for the content type
C3_Witness ==
    \E p, q \in Procs :
        /\ pc[p] = "finished"
        /\ req[p].header = Header(<<"text", "/", "plain">>)
        /\ req[p].body \in ValidBodies
        /\ req[p].fault # None
        /\ rejection[p] = Some(MissingContentType)
        /\ pc[q] = "finished"
        /\ req[q].header = Absent
        /\ req[q].body \in MalformedBodies
        /\ rejection[q] = Some(MissingContentType)

\* C4 as stated: an accepted content type with a body that is not valid
\* codec output always yields the decode rejection.
C4_AsStated ==
    \A p \in Procs :
        (Returned(p) /\ req[p].header \in AcceptedHeaders /\ req[p].body \in MalformedBodies)
            => (adapter[p] = Nothing /\ rejection[p] # Nothing
                /\ The(rejection[p]).kind = "BsonError")

\* C4 amended: an accepted content type with a body the decoder rejects
\* (the empty byte sequence included), whose collection succeeds, always
\* yields the decode rejection wrapping the decoder's error, never an adapter
\* and never another rejection.
C4_MalformedIsBsonError ==
    \A p \in Procs :
        (Returned(p) /\ req[p].header \in AcceptedHeaders /\ req[p].body \in MalformedBodies
          /\ req[p].fault = None)
            => /\ adapter[p] = Nothing
               /\ rejection[p] # Nothing
               /\ The(rejection[p]).kind = "BsonError"
               /\ The(rejection[p]).source # None

\* the empty body and a truncated document, both read whole and rejected
\* by the decoder
C4_Witness ==
    \E p, q \in Procs :
        /\ pc[p] = "finished" /\ pc[q] = "finished"
        /\ req[p].header \in AcceptedHeaders /\ req[q].header \in AcceptedHeaders
        /\ req[p].fault = None /\ req[q].fault = None
        /\ req[p].body = <<>>
        /\ req[q].body = SubSeq(Sample, 1, Len(Sample) - 1)
        /\ The(rejection[p]).kind = "BsonError"
        /\ The(rejection[q]).kind = "BsonError"

\* C5: with an accepted content type, a failing body collection gives the
\* BytesRead rejection wrapping the collector error, and the decode step is
\* not attempted on what was read.
C5_CollectFailureIsBytesRead ==
    \A p \in Procs :
        (Returned(p) /\ req[p].header \in AcceptedHeaders /\ req[p].fault # None)
            => /\ rejection[p] = Some([kind |-> "BytesRead", source |-> req[p].fault])
               /\ adapter[p] = Nothing
               /\ ~Has(trace[p], "decode")

\* the size limit cut a stream after a frame was buffered, and a stream
\* error broke another
C5_Witness ==
    \E p, q \in Procs :
        /\ pc[p] = "finished" /\ pc[q] = "finished"
        /\ req[p].fault = "LengthLimitError" /\ req[q].fault = "UnknownBodyError"
        /\ Has(trace[p], "read")
        /\ The(rejection[p]).kind = "BytesRead"
        /\ The(rejection[q]).kind = "BytesRead"

\* the trace of an extraction that read n frames and decoded
FullTrace(n) == <<"validate">> \o [i \in 1..n |-> "read"] \o <<"decode">>
Frames(body) == (Len(body) + ChunkLen - 1) \div ChunkLen

\* C6: an extraction that has returned produced exactly one of adapter and
\* rejection; an adapter exists only after the validator accepted, the whole
\* body was read and the decode of the whole body succeeded, and holds that
\* decoded value; an extraction cancelled while awaiting the body produced
\* neither.
C6_ExactlyOneOutcome ==
    \A p \in Procs :
        /\ Returned(p) => ((adapter[p] = Nothing) # (rejection[p] = Nothing))
        /\ ~Returned(p) => (adapter[p] = Nothing /\ rejection[p] = Nothing)
        /\ adapter[p] # Nothing =>
               /\ req[p].header \in AcceptedHeaders
               /\ req[p].fault = None
               /\ trace[p] = FullTrace(Frames(req[p].body))
               /\ req[p].body \in ValidBodies
               /\ from_slice(req[p].body).ok
               /\ The(adapter[p]).value = The(from_slice(req[p].body).val)
               /\ The(adapter[p]).value \in Values
        /\ pc[p] = "cancelled" => (resp[p] = Nothing /\ buf[p] = <<>>)

\* one extraction was cancelled with a frame buffered while another
\* returned an adapter
C6_Witness ==
    \E p, q \in Procs :
        /\ pc[p] = "cancelled"
        /\ Has(trace[p], "read")
        /\ pc[q] = "finished"
        /\ adapter[q] # Nothing

\* the Int64 document {foo: x} written out byte by byte
FooDocument(x) == <<18, 0, 0, 0, 18, 102, 111, 111, 0>> \o x \o <<0>>

\* C7: Bson<T>::into_response always returns a response: on encoding
\* success Content-Type application/octet-stream, the encoded bytes as body
\* and the default status 200; on encoding failure status 500, a plain-text
\* content type and the encoding error message as body.  It produces no
\* rejection.
C7_BsonResponseTotal ==
    \A p \in Procs :
        /\ (pc[p] = "responded" /\ adapter[p] # Nothing) => wrapped[p] # Nothing
        /\ wrapped[p] # Nothing =>
             /\ resp[p] # Nothing
             /\ rejection[p] = Nothing
             /\ LET v == The(wrapped[p]).value
                    r == The(resp[p])
                IN  IF v.foo[8] < 128
                    THEN /\ r.status = 200
                         /\ r.content_type = <<"application", "/", "octet-stream">>
                         /\ r.body = [text |-> "", bytes |-> FooDocument(v.foo)]
                    ELSE /\ r.status = 500
                         /\ r.content_type = <<"text", "/", "plain", ";", "charset=utf-8">>
                         /\ r.body = [text |-> "unsigned integer exceeded range",
                                      bytes |-> <<>>]

\* a handler returned a value the codec cannot encode and got the 500
\* response, another returned an encodable one
C7_Witness ==
    \E p, q \in Procs :
        /\ wrapped[p] # Nothing /\ The(wrapped[p]).value.foo[8] >= 128
        /\ The(resp[p]).status = 500
        /\ wrapped[q] # Nothing /\ The(wrapped[q]).value.foo[8] < 128
        /\ The(resp[q]).status = 200

\* C8: every rejection maps to status 400 with a plain-text content type
\* and its message as body; the status is the same for the three causes,
\* and MissingContentType renders "missing octet-stream content type".
C8_RejectionIsBadRequest ==
    \A p \in Procs :
        (pc[p] = "responded" /\ rejection[p] # Nothing) =>
            /\ resp[p] # Nothing
            /\ The(resp[p]).status = 400
            /\ The(resp[p]).content_type = <<"text", "/", "plain", ";", "charset=utf-8">>
            /\ The(resp[p]).body.bytes = <<>>
            /\ LET rej == The(rejection[p])
                   text == The(resp[p]).body.text
               IN  /\ rej.kind \in {"MissingContentType", "BytesRead", "BsonError"}
                   /\ rej.kind = "MissingContentType" =>
                          text = "missing octet-stream content type"
                   /\ rej.kind = "BytesRead" =>
                          text = "bytes read error: " \o rej.source
                   /\ rej.kind = "BsonError" =>
                          text = "bson parse error: " \o rej.source

\* a read failure and a decode failure have both been answered
C8_Witness ==
    \E p, q \in Procs :
        /\ pc[p] = "responded" /\ pc[q] = "responded"
        /\ rejection[p] # Nothing /\ The(rejection[p]).kind = "BytesRead"
        /\ rejection[q] # Nothing /\ The(rejection[q]).kind = "BsonError"
        /\ The(resp[q]).body.text = "bson parse error: unexpected end of document"

\* C9: for every value v the codec encodes, a request with an accepted
\* content type whose body is encode(v) and is read whole extracts to an
\* adapter holding v; the response built from that adapter has status 200,
\* Content-Type application/octet-stream, which the validator accepts, and
\* a body identical to the request body.
C9_RoundTrip ==
    \A p \in Procs : \A v \in Values :
        (/\ v.foo[8] < 128
         /\ Returned(p)
         /\ req[p].header \in AcceptedHeaders
         /\ req[p].fault = None
         /\ to_raw_document_buf(v).ok
         /\ req[p].body = The(to_raw_document_buf(v).val))
        => /\ req[p].body = FooDocument(v.foo)
           /\ adapter[p] = Some([value |-> v])
           /\ (pc[p] = "responded" /\ wrapped[p] = adapter[p]) =>
                  /\ The(resp[p]).status = 200
                  /\ The(resp[p]).body.bytes = req[p].body
                  /\ bson_content_type([header |-> Header(The(resp[p]).content_type)])

\* an extracted value was sent back unchanged
C9_Witness ==
    \E p \in Procs :
        /\ pc[p] = "responded"
        /\ adapter[p] # Nothing
        /\ wrapped[p] = adapter[p]
        /\ The(adapter[p]).value.foo[8] = 127
        /\ The(resp[p]).body.bytes = req[p].body

\* from_request run alone on request r, start to end: <<adapter, rejection>>
ExtractAlone(r) ==
    IF ~bson_content_type(r) THEN <<Nothing, Some(MissingContentType)>>
    ELSE IF r.fault # None THEN <<Nothing, Some(BytesRead(r.fault))>>
    ELSE LET d == from_slice(r.body) IN
         IF d.ok THEN <<Some(Bson(The(d.val))), Nothing>>
         ELSE <<Nothing, Some(BsonError(d.err))>>

\* C10: extractions interleaved at their suspension points do not affect
\* one another: each buffers bytes of its own body only, and its outcome is
\* the one it has when extracted alone.
C10_Independent ==
    \A p \in Procs :
        /\ Len(buf[p]) <= Len(req[p].body)
        /\ \A i \in 1..Len(buf[p]) : i <= Len(req[p].body) => buf[p][i] = req[p].body[i]
        /\ Returned(p) => <<adapter[p], rejection[p]>> = ExtractAlone(req[p])

\* two extractions of different valid bodies both returned their own value
C10_Witness ==
    \E p, q \in Procs :
        /\ pc[p] = "finished" /\ pc[q] = "finished"
        /\ adapter[p] # Nothing /\ adapter[q] # Nothing
        /\ adapter[p] # adapter[q]

====
